---- MODULE Spec2Model ----
(***************************************************************************)
(* TalentOS backend: the productivity scoring engine (scoring.service) and *)
(* the AI response cache (ai.service) as state machines.                   *)
(*                                                                         *)
(*   SpecScore : the task table and calculateProductivityScore             *)
(*   SpecCache : the ai_caches table and the cached AI endpoints           *)
(***************************************************************************)
EXTENDS Integers, Sequences, FiniteSets, TLC

VARIABLES
    tasks,      \* rows of the tasks table, in the order findMany returns them
    score,      \* <<>> or <<call>>: the last calculateProductivityScore call
    store,      \* rows of the ai_caches table
    now,        \* the wall clock, in hours
    nextId,     \* the next fresh row id of ai_caches
    req,        \* per request slot: the request in flight, its locals, the
                \* number of times it entered the generation step (gens)
    genCalls,   \* number of generation steps entered so far, each of which
                \* makes at most one generateContent call
    written,    \* per cache key, the content of the last successful upsert
    call,       \* <<>> or <<request>>: the last request to the tasks API, or
                \* the last getLeaderboard call, and its response
    patch       \* per request slot: the updateTaskStatus call in flight, the
                \* row it read and the data it writes

scoreVars == <<tasks, score>>
cacheVars == <<store, now, nextId, req, genCalls, written>>
taskVars == <<call, patch>>
vars == <<tasks, score, store, now, nextId, req, genCalls, written, call, patch>>

\* null / undefined of an optional field; a present value v is <<v>>
NULL == <<>>
Some(v) == <<v>>

Max(a, b) == IF a >= b THEN a ELSE b
Min(a, b) == IF a <= b THEN a ELSE b

(***************************************************************************)
(* IEEE-754 binary64 arithmetic on the values the scoring formula          *)
(* produces (non-negative, below 2^23, at most 60 significant bits before  *)
(* a rounding).  A double is [m, e]: m the significand as four limbs of    *)
(* 15 bits, most significant first, 2^52 <= m < 2^53, value = m * 2^e;     *)
(* zero is m = <<0, 0, 0, 0>>.                                             *)
(***************************************************************************)
MantBits == 53
LimbBits == 15
\* quotient bits of FlDiv held in the top limb, below the leading one
TopBits == 9
Base == 2 ^ LimbBits

FlZero == [m |-> <<0, 0, 0, 0>>, e |-> 0]
IsZero(x) == x.m = <<0, 0, 0, 0>>

\* NaN as a double (no significand), and as the value of a number field
FlNaN == [m |-> <<>>, e |-> 0]
IsNaN(x) == x.m = <<>>
NaN == -1

\* number of bits of a limb v (0 for v = 0)
BitLen(v) == CHOOSE k \in 0..LimbBits : v < (2 ^ k) /\ (k = 0 \/ v >= (2 ^ (k - 1)))

\* number of bits of the four-limb integer A
BitLen4(A) ==
    IF A[1] > 0 THEN 3 * LimbBits + BitLen(A[1])
    ELSE IF A[2] > 0 THEN 2 * LimbBits + BitLen(A[2])
    ELSE IF A[3] > 0 THEN LimbBits + BitLen(A[3])
    ELSE BitLen(A[4])

\* A + B on four-limb integers (the sum stays below 2^60)
Add4(A, B) ==
    LET s4 == A[4] + B[4]
        s3 == A[3] + B[3] + (s4 \div Base)
        s2 == A[2] + B[2] + (s3 \div Base)
        s1 == A[1] + B[1] + (s2 \div Base)
    IN  <<s1, s2 % Base, s3 % Base, s4 % Base>>

\* A * w for a small integer w (the product stays below 2^60)
Mul4(A, w) ==
    LET p4 == A[4] * w
        p3 == (A[3] * w) + (p4 \div Base)
        p2 == (A[2] * w) + (p3 \div Base)
        p1 == (A[1] * w) + (p2 \div Base)
    IN  <<p1, p2 % Base, p3 % Base, p4 % Base>>

\* A * 2^d for 0 <= d < LimbBits (the result stays below 2^60)
Shl4(A, d) ==
    LET hi(v) == v \div (2 ^ (LimbBits - d))
        lo(v) == (v * (2 ^ d)) % Base
    IN  <<(A[1] * (2 ^ d)) + hi(A[2]), lo(A[2]) + hi(A[3]), lo(A[3]) + hi(A[4]), lo(A[4])>>

\* floor(A / 2^d) for 0 <= d < LimbBits
Shr4(A, d) ==
    LET lo(v) == (v % (2 ^ d)) * (2 ^ (LimbBits - d))
        hi(v) == v \div (2 ^ d)
    IN  <<hi(A[1]), lo(A[1]) + hi(A[2]), lo(A[2]) + hi(A[3]), lo(A[3]) + hi(A[4])>>

\* round-to-nearest, ties-to-even, of A * 2^e to a double; A has 53 to 60
\* bits, sticky: non-zero bits were already cut off below A
RoundBits(A, e, sticky) ==
    LET s     == BitLen4(A) - MantBits
        cut   == A[4] % (2 ^ s)
        guard == s > 0 /\ (cut \div (2 ^ (s - 1))) = 1
        below == sticky \/ (s > 0 /\ (cut % (2 ^ (s - 1))) # 0)
        keep  == Shr4(A, s)
        up    == guard /\ (below \/ (keep[4] % 2) = 1)
        inc   == Add4(keep, <<0, 0, 0, 1>>)
    IN  IF ~up THEN [m |-> keep, e |-> e + s]
        ELSE IF BitLen4(inc) = MantBits THEN [m |-> inc, e |-> e + s]
        ELSE [m |-> Shr4(inc, 1), e |-> e + s + 1]

\* the double a / b of two integers (0 <= a, 0 < b, both below 2^LimbBits),
\* as the JS `/` gives it: 55 quotient bits by long division, then rounded
FlDiv(a, b) ==
    IF a = 0 /\ b = 0 THEN FlNaN
    ELSE IF a = 0 THEN FlZero
    ELSE LET k  == BitLen(a) - BitLen(b)
             \* a * 2^(-j) / b lies in [1, 2)
             j  == IF (IF k >= 0 THEN a ELSE a * (2 ^ (0 - k)))
                        >= (IF k >= 0 THEN b * (2 ^ k) ELSE b)
                   THEN k ELSE k - 1
             n  == IF j >= 0 THEN a ELSE a * (2 ^ (0 - j))
             d  == IF j >= 0 THEN b * (2 ^ j) ELSE b
             r0 == n - d
             l1 == (2 ^ TopBits) + ((r0 * (2 ^ TopBits)) \div d)
             r1 == (r0 * (2 ^ TopBits)) % d
             l2 == (r1 * Base) \div d
             r2 == (r1 * Base) % d
             l3 == (r2 * Base) \div d
             r3 == (r2 * Base) % d
             l4 == (r3 * Base) \div d
             r4 == (r3 * Base) % d
         IN  RoundBits(<<l1, l2, l3, l4>>, j - (3 * LimbBits + TopBits), r4 # 0)

\* the double x * w for an integer weight 0 <= w < 2^7, as the JS `*` gives it
FlMul(x, w) ==
    IF IsNaN(x) THEN FlNaN
    ELSE IF IsZero(x) \/ w = 0 THEN FlZero
    ELSE RoundBits(Mul4(x.m, w), x.e, FALSE)

\* the double x + y (exponents less than 8 apart), as the JS `+` gives it
FlAdd(x, y) ==
    IF IsNaN(x) \/ IsNaN(y) THEN FlNaN
    ELSE IF IsZero(x) THEN y
    ELSE IF IsZero(y) THEN x
    ELSE LET lo == Min(x.e, y.e)
         IN  RoundBits(Add4(Shl4(x.m, x.e - lo), Shl4(y.m, y.e - lo)), lo, FALSE)

\* Math.round of a double 0 <= x < 2^23: floor(x + 0.5); NaN stays NaN
MathRound(x) ==
    LET f == 0 - x.e
    IN  IF IsNaN(x) THEN NaN
        ELSE IF IsZero(x) \/ f > MantBits THEN 0
        ELSE IF f = MantBits THEN 1
        ELSE IF f >= 3 * LimbBits + 1
        THEN (x.m[1] \div (2 ^ (f - 3 * LimbBits)))
               + ((x.m[1] \div (2 ^ (f - 3 * LimbBits - 1))) % 2)
        ELSE IF f = 3 * LimbBits
        THEN x.m[1] + (x.m[2] \div (2 ^ (LimbBits - 1)))
        ELSE ((x.m[1] * Base + x.m[2]) \div (2 ^ (f - 2 * LimbBits)))
               + (((x.m[1] * Base + x.m[2]) \div (2 ^ (f - 2 * LimbBits - 1))) % 2)

(***************************************************************************)
(* The tasks table and calculateProductivityScore (scoring.service).       *)
(***************************************************************************)
Statuses   == {"TODO", "IN_PROGRESS", "COMPLETED"}
Priorities == {"LOW", "MEDIUM", "HIGH"}
Employees  == {"e1", "e2"}
Orgs       == {"o1", "o2"}

\* bounds of the task tables tried: tables that mix rows of several employees
\* and organizations, and tables of the rows that decide a score
MaxTasks     == 3
MaxCoreTasks == 8

Row(emp, org, st, pr, dl, ca) ==
    [employeeId |-> emp, orgId |-> org, status |-> st, priority |-> pr,
     deadline |-> dl, completedAt |-> ca]

\* every combination of status, priority, deadline and completedAt, the ones
\* that break "completedAt is set iff COMPLETED" included
FullPool ==
    {Row("e1", "o1", st, pr, dl, ca) :
        st \in Statuses, pr \in Priorities,
        dl \in {NULL, Some(2)}, ca \in {NULL, Some(1), Some(2), Some(3)}}

\* rows of another employee of the organization and of another organization
ForeignPool ==
    {Row(o[1], o[2], "TODO", "HIGH", Some(2), NULL) :
        o \in {<<"e2", "o1">>, <<"e1", "o2">>}}
    \cup
    {Row(o[1], o[2], "COMPLETED", "HIGH", Some(2), Some(1)) :
        o \in {<<"e2", "o1">>, <<"e1", "o2">>}}

\* rows of e1 in o1 (one of them not COMPLETED and with a completedAt) next
\* to the rows of the others
MixPool ==
    ForeignPool \cup {Row("e1", "o1", "TODO", "LOW", Some(2), Some(1)),
                      Row("e1", "o1", "COMPLETED", "HIGH", Some(2), Some(1))}

\* the rows of e1 in o1 that differ in what calculateProductivityScore counts
CorePool ==
    {Row("e1", "o1", "COMPLETED", pr, Some(2), ca) :
        pr \in {"LOW", "HIGH"}, ca \in {Some(1), Some(3)}}
    \cup {Row("e1", "o1", "TODO", pr, Some(2), NULL) : pr \in {"LOW", "HIGH"}}

\* a total order on rows: each table is tried in one order of its rows, the
\* counts of calculateProductivityScore do not depend on the order
OptCode(o) == IF o = NULL THEN 0 ELSE o[1]
RowCode(t) ==
    LET emp == IF t.employeeId = "e1" THEN 0 ELSE 1
        org == IF t.orgId = "o1" THEN 0 ELSE 1
        st  == CASE t.status = "TODO" -> 0 [] t.status = "IN_PROGRESS" -> 1
                 [] OTHER -> 2
        pr  == CASE t.priority = "LOW" -> 0 [] t.priority = "MEDIUM" -> 1
                 [] OTHER -> 2
    IN  ((((emp * 2 + org) * 3 + st) * 3 + pr) * 4 + OptCode(t.deadline)) * 4
            + OptCode(t.completedAt)

\* the rows of Pool in increasing order
RECURSIVE PoolSeq(_)
PoolSeq(Pool) ==
    IF Pool = {} THEN <<>>
    ELSE LET t == CHOOSE t \in Pool : \A u \in Pool : RowCode(t) <= RowCode(u)
         IN  <<t>> \o PoolSeq(Pool \ {t})

\* the non-decreasing sequences of n indices in 1..m, for a long pool and
\* for long tables
IndicesOfLen(m, n) ==
    {l \in [1..n -> 1..m] : \A i \in 1..(n - 1) : l[i] <= l[i + 1]}

RECURSIVE LongIndicesOfLen(_, _)
LongIndicesOfLen(m, n) ==
    IF n = 0 THEN {<<>>}
    ELSE UNION {{Append(l, j) : j \in (IF n = 1 THEN 1 ELSE l[n - 1])..m} :
                l \in LongIndicesOfLen(m, n - 1)}

MixRows  == PoolSeq(MixPool)
CoreRows == PoolSeq(CorePool)

\* the table of the rows at the indices l, as a tuple
TableAt(rows, l) == <<>> \o [i \in 1..Len(l) |-> rows[l[i]]]

\* the tables of at most n rows taken from rows
Tables(rows, n) ==
    UNION {{TableAt(rows, l) : l \in IndicesOfLen(Len(rows), k)} : k \in 0..n}

LongTables(rows, n) ==
    UNION {{TableAt(rows, l) : l \in LongIndicesOfLen(Len(rows), k)} : k \in 0..n}

\* the tables tried: each combination of the fields as the only row, the
\* mixed tables and the tables of the rows that decide a score
TaskTables ==
    {<<t>> : t \in FullPool}
        \cup Tables(MixRows, MaxTasks) \cup LongTables(CoreRows, MaxCoreTasks)

\* the weights of the formula
CompletionWeight      == 40
PriorityWeight        == 25
DeadlineWeight        == 35
RedistributedWeight   == 65
MaxScore              == 100

\* variant: the rows of the employee in every organization
FindTasksAnyOrg(employeeId, orgId) ==
    SelectSeq(tasks, LAMBDA t : t.employeeId = employeeId)

\* prisma.task.findMany({ where: { employeeId, orgId } })
FindTasks(employeeId, orgId) ==
    SelectSeq(tasks, LAMBDA t : t.employeeId = employeeId /\ t.orgId = orgId)

\* variant: a completed task without a deadline counts as on time
OnTimeWithoutDeadline(t) ==
    /\ t.status = "COMPLETED"
    /\ t.completedAt # NULL
    /\ (t.deadline = NULL \/ t.completedAt[1] <= t.deadline[1])

\* a Date is truthy, null is not
OnTime(t) ==
    /\ t.status = "COMPLETED"
    /\ t.completedAt # NULL
    /\ t.deadline # NULL
    /\ t.completedAt[1] <= t.deadline[1]

\* the tasks of the list that pass a filter, as their positions
Completed(allTasks) ==
    {i \in 1..Len(allTasks) : allTasks[i].status = "COMPLETED"}

HighPriority(allTasks) ==
    {i \in 1..Len(allTasks) : allTasks[i].priority = "HIGH"}

TaskStats(allTasks) ==
    [totalTasks            |-> Len(allTasks),
     completedTasks        |-> Cardinality(Completed(allTasks)),
     onTimeTasks           |-> Cardinality({i \in 1..Len(allTasks) : OnTime(allTasks[i])}),
     highPriorityTotal     |-> Cardinality(HighPriority(allTasks)),
     highPriorityCompleted |-> Cardinality(Completed(allTasks) \cap HighPriority(allTasks))]

\* variant: the weight of the completion rate if the 25 points of the
\* priority part were not folded into it
completionWeightFixed(stats) == CompletionWeight

\* variant: the completion rate weighs 65 whether or not there are HIGH tasks
completionWeightRedistributed(stats) == RedistributedWeight

completionWeight(stats) ==
    IF stats.highPriorityTotal = 0 THEN RedistributedWeight ELSE CompletionWeight

priorityWeight(stats) ==
    IF stats.highPriorityTotal = 0 THEN 0 ELSE PriorityWeight

\* the three unrounded contributions, as doubles
completionRate(stats) ==
    FlMul(FlDiv(stats.completedTasks, stats.totalTasks), completionWeight(stats))

\* variant: the deadline part without the test of completedTasks
deadlineScoreUnguarded(stats) ==
    FlMul(FlDiv(stats.onTimeTasks, stats.completedTasks), DeadlineWeight)

\* variant: the deadline part if its points were granted when nothing is
\* completed
deadlineScoreGranted(stats) ==
    IF stats.completedTasks > 0
    THEN FlMul(FlDiv(stats.onTimeTasks, stats.completedTasks), DeadlineWeight)
    ELSE FlMul(FlDiv(1, 1), DeadlineWeight)

deadlineScore(stats) ==
    IF stats.completedTasks > 0
    THEN FlMul(FlDiv(stats.onTimeTasks, stats.completedTasks), DeadlineWeight)
    ELSE FlZero

\* variant: the priority part as the share of all tasks
priorityScoreOfAll(stats) ==
    IF stats.highPriorityTotal > 0
    THEN FlMul(FlDiv(stats.highPriorityCompleted, stats.totalTasks),
               priorityWeight(stats))
    ELSE FlZero

priorityScore(stats) ==
    IF stats.highPriorityTotal > 0
    THEN FlMul(FlDiv(stats.highPriorityCompleted, stats.highPriorityTotal),
               priorityWeight(stats))
    ELSE FlZero

\* Math.min(100, Math.max(0, v)); both give NaN for NaN
Clamp(v) == IF v = NaN THEN NaN ELSE Min(MaxScore, Max(0, v))

\* the locals completionRate, deadlineScore and priorityScore
ScoreLocals(stats) ==
    [completionRate |-> completionRate(stats),
     deadlineScore  |-> deadlineScore(stats),
     priorityScore  |-> priorityScore(stats)]

\* variant: the sum of the three rounded sub-scores
finalScoreOfRounded(l) ==
    MathRound(l.completionRate) + MathRound(l.deadlineScore)
        + MathRound(l.priorityScore)

finalScore(l) ==
    MathRound(FlAdd(FlAdd(l.completionRate, l.deadlineScore), l.priorityScore))

\* variant: the sub-scores reported as percentages of their ratios
ScoreFormulaPercent(stats) ==
    LET l == ScoreLocals(stats)
        Percent(n, d) == IF d > 0 THEN MathRound(FlMul(FlDiv(n, d), 100)) ELSE 0
    IN  [finalScore     |-> Clamp(finalScore(l)),
         completionRate |-> Percent(stats.completedTasks, stats.totalTasks),
         deadlineScore  |-> Percent(stats.onTimeTasks, stats.completedTasks),
         priorityScore  |-> Percent(stats.highPriorityCompleted,
                                    stats.highPriorityTotal),
         breakdown      |-> stats]

ScoreFormula(stats) ==
    LET l == ScoreLocals(stats)
    IN  [finalScore     |-> Clamp(finalScore(l)),
         completionRate |-> MathRound(l.completionRate),
         deadlineScore  |-> MathRound(l.deadlineScore),
         priorityScore  |-> MathRound(l.priorityScore),
         breakdown      |-> stats]

ZeroScore(stats) ==
    [finalScore |-> 0, completionRate |-> 0, deadlineScore |-> 0,
     priorityScore |-> 0, breakdown |-> stats]

\* variant: the formula without the early return for an empty task list
ProductivityScoreNoEarlyReturn(stats) == ScoreFormula(stats)

ProductivityScore(stats) ==
    IF stats.totalTasks = 0 THEN ZeroScore(stats) ELSE ScoreFormula(stats)

calculateProductivityScore(employeeId, orgId) ==
    ProductivityScore(TaskStats(FindTasks(employeeId, orgId)))

\* one call of calculateProductivityScore: its arguments, what it returned
\* and the unrounded contributions it summed (NULL on the early return)
Calculate(employeeId, orgId) ==
    LET stats == TaskStats(FindTasks(employeeId, orgId))
    IN  /\ score' = Some([employeeId |-> employeeId, orgId |-> orgId,
                          result |-> calculateProductivityScore(employeeId, orgId),
                          raw |-> IF stats.totalTasks = 0 THEN NULL
                                  ELSE Some(ScoreLocals(stats))])
        /\ UNCHANGED <<tasks, cacheVars, taskVars>>

(***************************************************************************)
(* The ai_caches table and the cached endpoints (ai.service).              *)
(***************************************************************************)
Slots == {"r1", "r2"}
Kinds == {"skill-gap", "daily-insight"}

\* the TTL, in hours, the two endpoints pass to cacheResponse
LongTtl == 24

\* the TTL, in hours, smartAssign passes to cacheResponse
ShortTtl == 6

\* bounds: the clock stops at MaxTime, the provider answers MaxGens calls
MaxTime == 24
MaxGens == 1

\* the clock advances by a whole TTL: an entry written at time t is read at
\* t and at t + TTL, the last moment it is served
TickSteps == {LongTtl}

(* Strings are sequences of tokens.  A token is a newline, a markdown fence, *)
(* a JSON object text (compact, or with whitespace inside), a piece of      *)
(* prose, or the JSON text of { insight: <string> }.  ans names the provider *)
(* call a token came from: the organization prompted and the call's number. *)
Tok(kind, ans, inner) == [kind |-> kind, ans |-> ans, inner |-> inner]
NoAnswer  == [orgId |-> "", n |-> 0]
NL        == Tok("nl", NoAnswer, <<>>)
Fence     == Tok("fence", NoAnswer, <<>>)
FenceJson == Tok("fenceJson", NoAnswer, <<>>)

\* what generateContent may answer to call number n prompted with org's data
AiReplies(org, n) ==
    LET a == [orgId |-> org, n |-> n]
    IN  {<<FenceJson, NL, Tok("jsonPretty", a, <<>>), NL, Fence>>,
         <<NL, Tok("prose", a, <<>>), NL>>}

\* String.prototype.trim
RECURSIVE TrimStart(_)
TrimStart(s) == IF Len(s) > 0 /\ s[1].kind = "nl" THEN TrimStart(Tail(s)) ELSE s

RECURSIVE TrimEnd(_)
TrimEnd(s) ==
    IF Len(s) > 0 /\ s[Len(s)].kind = "nl" THEN TrimEnd(SubSeq(s, 1, Len(s) - 1)) ELSE s

Trim(s) == TrimEnd(TrimStart(s))

\* s.replace(/<fence>\n?/g, ''): every fence goes, with a newline right after
\* it; fenceJson is the fence followed by the word json
RECURSIVE RemoveFence(_, _)
RemoveFence(s, fence) ==
    IF Len(s) = 0 THEN <<>>
    ELSE IF s[1].kind = fence
    THEN IF Len(s) > 1 /\ s[2].kind = "nl"
         THEN RemoveFence(SubSeq(s, 3, Len(s)), fence)
         ELSE RemoveFence(Tail(s), fence)
    ELSE <<s[1]>> \o RemoveFence(Tail(s), fence)

\* JSON.parse: NULL when it throws; whitespace around the value is allowed and
\* whitespace inside it is not kept
JsonParse(s) ==
    LET t == Trim(s)
    IN  IF Len(t) = 1 /\ t[1].kind \in {"json", "jsonPretty"}
        THEN Some(Tok("json", t[1].ans, <<>>))
        ELSE IF Len(t) = 1 /\ t[1].kind \in {"jsonInsight", "jsonAssign"} THEN Some(t[1])
        ELSE NULL

\* JSON.stringify of a parsed value
JsonStringify(v) == <<v>>

\* the object { insight }
InsightObject(insight) == Tok("jsonInsight", NoAnswer, insight)

\* a non-empty string is truthy
Truthy(s) == Len(s) > 0

\* the cache key of a request: kind holds it, the fixed key of
\* analyzeSkillGap and getDailyInsight or the key smartAssign composes
CacheKeyOf(kind) == kind

\* variant: every endpoint caches for 24 hours
TtlOfLong(kind) == LongTtl

\* the TTL the endpoint of the key passes to cacheResponse
TtlOf(kind) == IF kind \in Kinds THEN LongTtl ELSE ShortTtl

IdleReq ==
    [pc |-> "idle", kind |-> "skill-gap", orgId |-> "o1", forceRefresh |-> FALSE,
     input |-> NULL,
     cached |-> NULL, value |-> NULL, gens |-> 0, result |-> NULL, error |-> ""]

\* an updateTaskStatus call before it starts, and the slots without a call
IdlePatch ==
    [pc |-> "idle", taskId |-> 1, orgId |-> "o1", input |-> [status |-> "TODO"],
     task |-> NULL, updateData |-> NULL, code |-> 0]

IdlePatches == [r \in Slots |-> IdlePatch]

\* what an earlier request answered by the provider's call number n left in
\* the table for the key: the content and the row
ContentOf(kind, orgId, n) ==
    LET a == [orgId |-> orgId, n |-> n]
    IN  IF kind = "skill-gap" THEN JsonStringify(Tok("json", a, <<>>))
        ELSE JsonStringify(InsightObject(<<Tok("prose", a, <<>>)>>))

CacheRow(id, orgId, cacheKey, content, expiresAt) ==
    [id |-> id, orgId |-> orgId, cacheKey |-> cacheKey, content |-> content,
     expiresAt |-> expiresAt]

\* the table with an entry of every organization for every key, written one
\* TTL before the clock starts: served at time 0, expired after it
FullStore ==
    {CacheRow(1, "o1", "skill-gap", ContentOf("skill-gap", "o1", 0), 0),
     CacheRow(2, "o2", "skill-gap", ContentOf("skill-gap", "o2", 0), 0),
     CacheRow(3, "o1", "daily-insight", ContentOf("daily-insight", "o1", 0), 0),
     CacheRow(4, "o2", "daily-insight", ContentOf("daily-insight", "o2", 0), 0)}

InitStores == {{}, FullStore}

\* the cache side before the first request, the table being one of stores
IdleCache(stores) ==
    /\ store \in stores
    /\ now = 0
    /\ nextId = Cardinality(store) + 1
    /\ req = [r \in Slots |-> IdleReq]
    /\ genCalls = 0
    /\ written = {[orgId |-> row.orgId, cacheKey |-> row.cacheKey,
                   content |-> row.content] : row \in store}

\* variant: a lookup by the cache key alone
FindUniqueAnyOrg(orgId, cacheKey) ==
    LET rows == {row \in store : row.cacheKey = cacheKey}
    IN  IF rows = {} THEN NULL ELSE Some(CHOOSE row \in rows : TRUE)

InitCache == IdleCache(InitStores) /\ tasks = <<>> /\ score = NULL /\ call = NULL /\ patch = IdlePatches

\* prisma.aiCache.findUnique({ where: { orgId_cacheKey } })
FindUnique(orgId, cacheKey) ==
    LET rows == {row \in store : row.orgId = orgId /\ row.cacheKey = cacheKey}
    IN  IF rows = {} THEN NULL ELSE Some(CHOOSE row \in rows : TRUE)

\* variant: an entry counts as expired at the moment expiresAt
ExpiredAtDeadline(cached, date) == cached.expiresAt <= date

\* cached.expiresAt && cached.expiresAt < new Date()
Expired(cached, date) == cached.expiresAt < date

\* the request of slot r returns result (its locals end with the call)
Return(r, result) ==
    req' = [req EXCEPT ![r].pc = "done", ![r].result = Some(result),
                       ![r].cached = NULL, ![r].value = NULL]

\* variant: the error is swallowed and the value at hand is returned
ThrowSwallowed(r, error) ==
    req' = [req EXCEPT ![r].pc = "done", ![r].result = req[r].value,
                       ![r].error = IF req[r].value = NULL THEN error ELSE "",
                       ![r].cached = NULL, ![r].value = NULL]

\* the request of slot r fails with error
Throw(r, error) ==
    req' = [req EXCEPT ![r].pc = "done", ![r].error = error,
                       ![r].cached = NULL, ![r].value = NULL]

\* variant: the flag is ignored and the cache is read first
FirstStepLookup(forceRefresh) == "lookup"

\* the first step of analyzeSkillGap / getDailyInsight
FirstStep(forceRefresh) == IF forceRefresh THEN "generate" ELSE "lookup"

\* a request arrives: analyzeSkillGap(orgId, forceRefresh) or
\* getDailyInsight(orgId, forceRefresh) is called; it takes slot r1 unless a
\* request is in flight there
Start(r, kind, orgId, forceRefresh) ==
    /\ req[r].pc \in {"idle", "done"}
    /\ r = "r2" => req["r1"].pc \notin {"idle", "done"}
    /\ req' = [req EXCEPT ![r] = [IdleReq EXCEPT !.pc = FirstStep(forceRefresh),
                                                 !.kind = kind, !.orgId = orgId,
                                                 !.forceRefresh = forceRefresh]]
    /\ UNCHANGED <<store, now, nextId, genCalls, written, scoreVars, taskVars>>

\* getCachedResponse up to its first return or to the delete, and the
\* caller's `if (cached) return JSON.parse(cached)`
Lookup(r) ==
    /\ req[r].pc = "lookup"
    /\ \E ioOk \in BOOLEAN :
        LET cached == FindUnique(req[r].orgId, CacheKeyOf(req[r].kind))
        IN  IF ~ioOk THEN Throw(r, "StorageError")
            ELSE IF cached = NULL THEN req' = [req EXCEPT ![r].pc = "generate"]
            ELSE IF Expired(cached[1], now)
            THEN req' = [req EXCEPT ![r].pc = "delete", ![r].cached = cached]
            ELSE IF ~Truthy(cached[1].content)
            THEN req' = [req EXCEPT ![r].pc = "generate"]
            ELSE IF JsonParse(cached[1].content) = NULL
            THEN Throw(r, "SyntaxError")
            ELSE Return(r, JsonParse(cached[1].content)[1])
    /\ UNCHANGED <<store, now, nextId, genCalls, written, scoreVars, taskVars>>

\* variant: a delete that removes nothing
DeleteByIdKeeps(rows, id) == rows

\* variant: the delete also sweeps every other expired row
DeleteByIdSweeps(rows, id) ==
    {row \in rows : row.id # id /\ ~(row.expiresAt < now)}

\* prisma.aiCache.delete({ where: { id } }): the rows left
DeleteById(rows, id) == {row \in rows : row.id # id}

\* getCachedResponse from the delete of the expired row to `return null`
Delete(r) ==
    /\ req[r].pc = "delete"
    /\ \E ioOk \in BOOLEAN :
        IF ~ioOk
        THEN Throw(r, "StorageError") /\ store' = store
        ELSE IF \A row \in store : row.id # req[r].cached[1].id
        THEN Throw(r, "RecordNotFound") /\ store' = store
        ELSE /\ store' = DeleteById(store, req[r].cached[1].id)
             /\ req' = [req EXCEPT ![r].pc = "generate"]
    /\ UNCHANGED <<now, nextId, genCalls, written, scoreVars, taskVars>>

\* variant: text that does not parse is kept as it is
ParseReplyLenient(kind, text) ==
    IF kind = "skill-gap"
    THEN LET t == Trim(RemoveFence(RemoveFence(Trim(text), "fenceJson"), "fence"))
         IN  IF JsonParse(t) = NULL THEN Some(t[1]) ELSE JsonParse(t)
    ELSE Some(InsightObject(Trim(text)))

\* what the endpoint makes of the provider's text: NULL when it throws
ParseReply(kind, text) ==
    IF kind = "skill-gap"
    THEN JsonParse(Trim(RemoveFence(RemoveFence(Trim(text), "fenceJson"), "fence")))
    ELSE Some(InsightObject(Trim(text)))

\* the request of slot r goes on to cacheResponse with the parsed value
Parsed(r, parsed) ==
    req' = [req EXCEPT ![r].pc = "upsert", ![r].value = parsed]

\* the generation step, from the cache miss to the call of cacheResponse: the
\* data of the organization is read and the prompt built, the provider is
\* called once and its text is parsed
GenerateWithin(r, limit) ==
    /\ req[r].pc = "generate"
    /\ genCalls < limit
    /\ \E ioOk \in BOOLEAN, ok \in BOOLEAN, text \in AiReplies(req[r].orgId, genCalls + 1) :
        LET entered == [req EXCEPT ![r].gens = @ + 1]
            parsed  == ParseReply(req[r].kind, text)
        IN  IF ~ioOk
            THEN req' = [entered EXCEPT ![r].pc = "done", ![r].cached = NULL,
                                        ![r].error = "StorageError"]
            ELSE IF ~ok
            THEN req' = [entered EXCEPT ![r].pc = "done", ![r].cached = NULL,
                                        ![r].error = "ProviderError"]
            ELSE IF parsed = NULL
            THEN req' = [entered EXCEPT ![r].pc = "done", ![r].cached = NULL,
                                        ![r].error = "Failed to parse AI response"]
            ELSE req' = [entered EXCEPT ![r].pc = "upsert", ![r].value = parsed]
    /\ genCalls' = genCalls + 1
    /\ UNCHANGED <<store, now, nextId, written, scoreVars, taskVars>>

Generate(r) == GenerateWithin(r, MaxGens)

\* expiresAt.setHours(expiresAt.getHours() + expiresInHours)
ExpiresAt(date, expiresInHours) == date + expiresInHours

\* variant: the row is created when absent and left as it is when present
UpsertRowKeepsFirst(rows, id, orgId, cacheKey, content, expiresAt) ==
    IF \E row \in rows : row.orgId = orgId /\ row.cacheKey = cacheKey
    THEN rows
    ELSE rows \cup {CacheRow(id, orgId, cacheKey, content, expiresAt)}

\* variant: the upsert always inserts a row
UpsertRowInserts(rows, id, orgId, cacheKey, content, expiresAt) ==
    rows \cup {CacheRow(id, orgId, cacheKey, content, expiresAt)}

\* prisma.aiCache.upsert: the rows afterwards
UpsertRow(rows, id, orgId, cacheKey, content, expiresAt) ==
    IF \E row \in rows : row.orgId = orgId /\ row.cacheKey = cacheKey
    THEN {IF row.orgId = orgId /\ row.cacheKey = cacheKey
          THEN [row EXCEPT !.content = content, !.expiresAt = expiresAt]
          ELSE row : row \in rows}
    ELSE rows \cup {CacheRow(id, orgId, cacheKey, content, expiresAt)}

\* the record of the last successful upsert of each key
Written(w, orgId, cacheKey, content) ==
    {x \in w : x.orgId # orgId \/ x.cacheKey # cacheKey}
        \cup {[orgId |-> orgId, cacheKey |-> cacheKey, content |-> content]}

\* cacheResponse(orgId, cacheKey, JSON.stringify(value), ttl) and the return
Upsert(r) ==
    /\ req[r].pc = "upsert"
    /\ \E ioOk \in BOOLEAN :
        LET orgId    == req[r].orgId
            cacheKey == CacheKeyOf(req[r].kind)
            content  == JsonStringify(req[r].value[1])
        IN  IF ~ioOk
            THEN Throw(r, "StorageError") /\ UNCHANGED <<store, nextId, written>>
            ELSE /\ store' = UpsertRow(store, nextId, orgId, cacheKey, content,
                                      ExpiresAt(now, TtlOf(req[r].kind)))
                 /\ nextId' = IF FindUnique(orgId, cacheKey) = NULL
                              THEN nextId + 1 ELSE nextId
                 /\ written' = Written(written, orgId, cacheKey, content)
                 /\ Return(r, req[r].value[1])
    /\ UNCHANGED <<now, genCalls, scoreVars, taskVars>>

\* time passes
Tick(d) ==
    /\ now + d <= MaxTime
    /\ now' = now + d
    /\ UNCHANGED <<store, nextId, req, genCalls, written, scoreVars, taskVars>>

NextCache ==
    \/ \E r \in Slots, kind \in Kinds, orgId \in Orgs, forceRefresh \in BOOLEAN :
          Start(r, kind, orgId, forceRefresh)
    \/ \E r \in Slots : Lookup(r)
    \/ \E r \in Slots : Delete(r)
    \/ \E r \in Slots : Generate(r)
    \/ \E r \in Slots : Upsert(r)
    \/ \E d \in TickSteps : Tick(d)

SpecCache == InitCache /\ [][NextCache]_vars

\* two requests racing for one key: every request is analyzeSkillGap of the
\* organization RaceOrg, and the run makes at most MaxRaceGens generations
MaxRaceGens == 2
RaceKind == "skill-gap"
RaceOrg == "o1"

NextRace ==
    \/ \E r \in Slots, forceRefresh \in BOOLEAN :
          Start(r, RaceKind, RaceOrg, forceRefresh)
    \/ \E r \in Slots : Lookup(r)
    \/ \E r \in Slots : Delete(r)
    \/ \E r \in Slots : GenerateWithin(r, MaxRaceGens)
    \/ \E r \in Slots : Upsert(r)
    \/ \E d \in TickSteps : Tick(d)

SpecRace == InitCache /\ [][NextRace]_vars

(***************************************************************************)
(* smartAssign.  A string the caller sends is a sequence of characters.    *)
(***************************************************************************)
\* String.prototype.toLowerCase, on the letters the inputs use
LowerCase(c) ==
    CASE c = "G" -> "g" [] c = "O" -> "o" [] c = "J" -> "j" [] c = "S" -> "s"
      [] OTHER -> c

ToLowerCase(s) == [i \in 1..Len(s) |-> LowerCase(s[i])]

\* String.prototype.trim on characters
RECURSIVE TrimChars(_)
TrimChars(s) ==
    IF Len(s) > 0 /\ s[1] = " " THEN TrimChars(Tail(s))
    ELSE IF Len(s) > 0 /\ s[Len(s)] = " " THEN TrimChars(SubSeq(s, 1, Len(s) - 1))
    ELSE s

\* the characters as one string
RECURSIVE Join(_)
Join(s) == IF Len(s) = 0 THEN "" ELSE s[1] \o Join(Tail(s))

\* variant: the key is composed from the skill as it was sent
AssignKeyRaw(skillRequired) == "smart-assign:" \o Join(skillRequired)

\* `smart-assign:${input.skillRequired.toLowerCase().trim()}`
AssignKey(skillRequired) ==
    "smart-assign:" \o Join(TrimChars(ToLowerCase(skillRequired)))

\* the request bodies tried: a skill, the same skill in another spelling
\* with another task title, and another skill
AssignInputs ==
    {[taskTitle |-> "Build API", skillRequired |-> <<"G", "o">>],
     [taskTitle |-> "Fix login", skillRequired |-> <<" ", "g", "O", " ">>],
     [taskTitle |-> "Build API", skillRequired |-> <<"J", "S">>]}

\* the object { recommendedEmployee, reason }
AssignObject(recommendedEmployee, reason) ==
    Tok("jsonAssign", NoAnswer, <<recommendedEmployee, reason>>)

\* what generateContent answers to a prompt of smartAssign: the prompt names
\* the task title and the skill as sent, and carries the organization's data
AssignReply(orgId, n, input, part) ==
    <<NL, Tok("prose", [orgId |-> orgId, n |-> n, input |-> input, part |-> part],
              <<>>), NL>>

\* POST /api/ai/smart-assign arrives: smartAssign(input, orgId) is called
AssignStart(r, input, orgId) ==
    /\ req[r].pc \in {"idle", "done"}
    /\ r = "r2" => req["r1"].pc \notin {"idle", "done"}
    /\ req' = [req EXCEPT ![r] = [IdleReq EXCEPT !.pc = "lookup",
                                                 !.kind = AssignKey(input.skillRequired),
                                                 !.orgId = orgId,
                                                 !.input = Some(input)]]
    /\ UNCHANGED <<store, now, nextId, genCalls, written, scoreVars, taskVars>>

\* the generation step of smartAssign, from the cache miss to the call of
\* cacheResponse: the employees are read, the provider is asked for a name
\* and then for a reason
AssignGenerate(r, limit) ==
    /\ req[r].pc = "generate"
    /\ req[r].input # NULL
    /\ genCalls < limit
    /\ \E ioOk \in BOOLEAN, ok \in BOOLEAN :
        LET entered == [req EXCEPT ![r].gens = @ + 1]
            recommendedEmployee ==
                Trim(AssignReply(req[r].orgId, genCalls + 1, req[r].input[1], "name"))
            reason ==
                Trim(AssignReply(req[r].orgId, genCalls + 1, req[r].input[1], "reason"))
        IN  IF ~ioOk
            THEN req' = [entered EXCEPT ![r].pc = "done", ![r].cached = NULL,
                                        ![r].error = "StorageError"]
            ELSE IF ~ok
            THEN req' = [entered EXCEPT ![r].pc = "done", ![r].cached = NULL,
                                        ![r].error = "ProviderError"]
            ELSE req' = [entered EXCEPT ![r].pc = "upsert",
                                        ![r].value =
                                            Some(AssignObject(recommendedEmployee, reason))]
    /\ genCalls' = genCalls + 1
    /\ UNCHANGED <<store, now, nextId, written, scoreVars, taskVars>>

\* smartAssign next to forced calls of analyzeSkillGap and getDailyInsight
\* in the organization RaceOrg, the table holding an entry for each of their
\* keys: the run makes at most MaxAssignGens generations
MaxAssignGens == 2

InitAssign ==
    IdleCache({FullStore}) /\ tasks = <<>> /\ score = NULL /\ call = NULL
        /\ patch = IdlePatches

NextAssign ==
    \/ \E r \in Slots, input \in AssignInputs : AssignStart(r, input, RaceOrg)
    \/ \E r \in Slots, kind \in Kinds : Start(r, kind, RaceOrg, TRUE)
    \/ \E r \in Slots : Lookup(r)
    \/ \E r \in Slots : Delete(r)
    \/ \E r \in Slots : req[r].input = NULL /\ GenerateWithin(r, MaxAssignGens)
    \/ \E r \in Slots : AssignGenerate(r, MaxAssignGens)
    \/ \E r \in Slots : Upsert(r)
    \/ \E d \in TickSteps : Tick(d)

SpecAssign == InitAssign /\ [][NextAssign]_vars

InitScore == tasks \in TaskTables /\ score = NULL /\ IdleCache({{}}) /\ call = NULL /\ patch = IdlePatches

NextScore == \E employeeId \in Employees, orgId \in Orgs : Calculate(employeeId, orgId)

SpecScore == InitScore /\ [][NextScore]_vars

(***************************************************************************)
(* The score of one store after the other: between two calls of            *)
(* calculateProductivityScore the tasks table gains a row, loses a row, or *)
(* is read by findMany in another order.                                   *)
(***************************************************************************)
\* the rows the table may gain: two of e1 in o1, one of another employee of
\* o1, one of e1 in another organization
StorePool ==
    {Row("e1", "o1", "COMPLETED", "HIGH", Some(2), Some(1)),
     Row("e1", "o1", "TODO", "LOW", Some(2), Some(1)),
     Row("e2", "o1", "COMPLETED", "HIGH", Some(2), Some(1)),
     Row("e1", "o2", "TODO", "HIGH", Some(2), NULL)}

\* a change of the table; score holds the result of a call in the table as it
\* is, a changed table has none yet
StoreWrite(rows) ==
    /\ tasks' = rows
    /\ score' = NULL
    /\ UNCHANGED <<cacheVars, taskVars>>

\* prisma.task.create
StoreCreate(t) ==
    /\ Len(tasks) < MaxTasks
    /\ StoreWrite(Append(tasks, t))

\* prisma.task.delete
StoreDelete(i) ==
    /\ i \in 1..Len(tasks)
    /\ StoreWrite(SubSeq(tasks, 1, i - 1) \o SubSeq(tasks, i + 1, Len(tasks)))

\* findMany has no orderBy: the rows i and i + 1 come in the other order
StoreReorder(i) ==
    /\ i \in 1..(Len(tasks) - 1)
    /\ tasks[i] # tasks[i + 1]
    /\ StoreWrite([tasks EXCEPT ![i] = tasks[i + 1], ![i + 1] = tasks[i]])

InitTable == tasks = <<>> /\ score = NULL /\ IdleCache({{}}) /\ call = NULL /\ patch = IdlePatches

NextTable ==
    \/ \E employeeId \in Employees, orgId \in Orgs : Calculate(employeeId, orgId)
    \/ \E t \in StorePool : StoreCreate(t)
    \/ \E i \in 1..MaxTasks : StoreDelete(i)
    \/ \E i \in 1..MaxTasks : StoreReorder(i)

SpecTable == InitTable /\ [][NextTable]_vars

(***************************************************************************)
(* The tasks API (task.routes, task.controller, task.service): each        *)
(* request runs from the route to the response.                            *)
(***************************************************************************)
\* the rows of the employees table; they do not change here
EmployeeRows ==
    {[id |-> "e1", orgId |-> "o1"], [id |-> "e2", orgId |-> "o1"],
     [id |-> "e3", orgId |-> "o2"]}

\* the payloads authMiddleware puts in req.org: the token of an organization
\* (admin) carries no employeeId, the token of an employee carries its id
Tokens ==
    {[orgId |-> o, employeeId |-> NULL] : o \in Orgs}
        \cup {[orgId |-> "o1", employeeId |-> Some("e1")]}

\* bound of the tasks table of the tasks API
MaxRows == 1
TaskIds == 1..MaxRows

\* an ISO datetime string of a request body, and new Date of it
IsoString(t) == [iso |-> t]
NewDate(s) == Some(s.iso)

\* the deadline and the transaction hash sent in the requests tried
SomeDeadline == IsoString(2)
SomeTxHash == "0xabc"

\* a row as prisma.task.create stores it: status and the nullable columns
\* take the defaults of the table
NewTask(id, orgId, employeeId, priority, deadline) ==
    [id |-> id, orgId |-> orgId, employeeId |-> employeeId, status |-> "TODO",
     priority |-> priority, deadline |-> deadline, completedAt |-> NULL,
     txHash |-> NULL]

\* prisma.task.findFirst({ where: { id, orgId } })
FindFirstTask(taskId, orgId) ==
    LET found == {i \in 1..Len(tasks) :
                     tasks[i].id = taskId /\ tasks[i].orgId = orgId}
    IN  IF found = {} THEN NULL ELSE Some(tasks[CHOOSE i \in found : TRUE])

\* prisma.employee.findFirst({ where: { id, orgId } })
FindFirstEmployee(id, orgId) ==
    LET found == {e \in EmployeeRows : e.id = id /\ e.orgId = orgId}
    IN  IF found = {} THEN NULL ELSE Some(CHOOSE e \in found : TRUE)

\* the row with the keys of data written over its fields
WithData(row, data) ==
    LET Field(f) == IF f \in DOMAIN data THEN data[f] ELSE row[f]
    IN  [id |-> row.id, orgId |-> row.orgId, employeeId |-> Field("employeeId"),
         status |-> Field("status"), priority |-> Field("priority"),
         deadline |-> Field("deadline"), completedAt |-> Field("completedAt"),
         txHash |-> Field("txHash")]

\* prisma.task.update({ where: { id }, data })
TaskUpdate(taskId, data) ==
    <<>> \o [i \in 1..Len(tasks) |->
                IF tasks[i].id = taskId THEN WithData(tasks[i], data) ELSE tasks[i]]

\* an object without keys
NoKeys == [k \in {} |-> NULL]

\* what a service function does: it returns, leaving the table as rows, or
\* throws an AppError with a status code, the table being as it was
Returned(rows) == [error |-> 0, rows |-> rows]
AppError(statusCode) == [error |-> statusCode, rows |-> tasks]

\* createTask(input, orgId); input as createTaskSchema leaves it
createTask(input, orgId) ==
    IF FindFirstEmployee(input.employeeId, orgId) = NULL THEN AppError(404)
    ELSE Returned(Append(tasks,
            NewTask(Len(tasks) + 1, orgId, input.employeeId, input.priority,
                    IF input.deadline # NULL THEN NewDate(input.deadline[1])
                    ELSE NULL)))

\* updateTask(taskId, input, orgId); input holds the keys of updateTaskSchema
\* that the body had
updateTask(taskId, input, orgId) ==
    LET task == FindFirstTask(taskId, orgId)
    IN  IF task = NULL THEN AppError(404)
        ELSE IF /\ "employeeId" \in DOMAIN input
                /\ input.employeeId # task[1].employeeId
                /\ FindFirstEmployee(input.employeeId, orgId) = NULL
        THEN AppError(404)
        ELSE LET updateData ==
                     IF "deadline" \in DOMAIN input
                     THEN ("deadline" :> NewDate(input.deadline)) @@ input
                     ELSE input
             IN  Returned(TaskUpdate(taskId, updateData))

\* variant: completedAt is kept when the status leaves COMPLETED
StatusUpdateDataKeeps(task, input) ==
    ("status" :> input.status)
        @@ (IF input.status = "COMPLETED" /\ task.completedAt = NULL
            THEN "completedAt" :> Some(now) ELSE NoKeys)

\* variant: every completion is stamped with the current time
StatusUpdateDataRestamps(task, input) ==
    ("status" :> input.status)
        @@ (IF input.status = "COMPLETED"
            THEN "completedAt" :> Some(now) ELSE NoKeys)
        @@ (IF input.status # "COMPLETED" /\ task.completedAt # NULL
            THEN "completedAt" :> NULL ELSE NoKeys)

\* updateData of updateTaskStatus, from the row that was read
StatusUpdateData(task, input) ==
    ("status" :> input.status)
        @@ (IF input.status = "COMPLETED" /\ task.completedAt = NULL
            THEN "completedAt" :> Some(now) ELSE NoKeys)
        @@ (IF input.status # "COMPLETED" /\ task.completedAt # NULL
            THEN "completedAt" :> NULL ELSE NoKeys)

\* the test of the requester: undefined (NULL) passes, as does the id of
\* the employee the task is assigned to
NotOwnTask(task, requesterId) ==
    requesterId # NULL /\ task.employeeId # requesterId[1]

\* updateTaskStatus(taskId, input, orgId, requesterId)
updateTaskStatus(taskId, input, orgId, requesterId) ==
    LET task == FindFirstTask(taskId, orgId)
    IN  IF task = NULL THEN AppError(404)
        ELSE IF NotOwnTask(task[1], requesterId) THEN AppError(403)
        ELSE Returned(TaskUpdate(taskId, StatusUpdateData(task[1], input)))

\* updateTaskTxHash(taskId, input, orgId, requesterId)
updateTaskTxHash(taskId, input, orgId, requesterId) ==
    LET task == FindFirstTask(taskId, orgId)
    IN  IF task = NULL THEN AppError(404)
        ELSE IF NotOwnTask(task[1], requesterId) THEN AppError(403)
        ELSE Returned(TaskUpdate(taskId, "txHash" :> input.txHash))

\* the request bodies tried, as the schemas leave them: createTaskSchema
\* fills in the priority MEDIUM, updateTaskSchema keeps the keys sent
CreateInputs ==
    {[employeeId |-> "e1", priority |-> "HIGH", deadline |-> Some(SomeDeadline)]}
        \cup {[employeeId |-> e, priority |-> "MEDIUM", deadline |-> NULL] :
                 e \in {"e2", "e3"}}

UpdateInputs ==
    {"status" :> st : st \in Statuses} \cup {"employeeId" :> "e2"}

\* a request and its response, as the controllers see them
Request(op, token, taskId, input, code) ==
    Some([op |-> op, token |-> token, taskId |-> taskId, input |-> input,
          code |-> code])

\* the response of the controller (its status on success, the status of
\* the AppError through errorMiddleware) and the table after the request
Respond(op, token, taskId, input, success, outcome) ==
    /\ tasks' = outcome.rows
    /\ call' = Request(op, token, taskId, input,
                       IF outcome.error = 0 THEN success ELSE outcome.error)
    /\ UNCHANGED <<score, cacheVars, patch>>

\* POST /api/tasks
CreateTask(token, input) ==
    /\ Len(tasks) < MaxRows
    /\ Respond("createTask", token, 0, input, 201,
               createTask(input, token.orgId))

\* PUT /api/tasks/:id
UpdateTask(token, taskId, input) ==
    Respond("updateTask", token, taskId, input, 200,
            updateTask(taskId, input, token.orgId))

\* PATCH /api/tasks/:id/status: the controller passes no requesterId
UpdateTaskStatus(token, taskId, input) ==
    Respond("updateTaskStatus", token, taskId, input, 200,
            updateTaskStatus(taskId, input, token.orgId, NULL))

\* PATCH /api/tasks/:id/txhash: the controller passes no requesterId
UpdateTaskTxHash(token, taskId, input) ==
    Respond("updateTaskTxHash", token, taskId, input, 200,
            updateTaskTxHash(taskId, input, token.orgId, NULL))

InitTask == tasks = <<>> /\ score = NULL /\ IdleCache({{}}) /\ call = NULL /\ patch = IdlePatches

NextTask ==
    \/ \E token \in Tokens, input \in CreateInputs : CreateTask(token, input)
    \/ \E token \in Tokens, taskId \in TaskIds, input \in UpdateInputs :
          UpdateTask(token, taskId, input)
    \/ \E token \in Tokens, taskId \in TaskIds, status \in Statuses :
          UpdateTaskStatus(token, taskId, [status |-> status])
    \/ \E token \in Tokens, taskId \in TaskIds :
          UpdateTaskTxHash(token, taskId, [txHash |-> SomeTxHash])
    \/ \E d \in TickSteps : Tick(d)

SpecTask == InitTask /\ [][NextTask]_vars

(***************************************************************************)
(* updateTaskStatus step by step: two calls may be in flight, each reads   *)
(* the task, builds updateData from the row it read, and the table applies *)
(* the update later.                                                       *)
(***************************************************************************)
\* PATCH /api/tasks/:id/status arrives: updateTaskStatus(taskId, input, orgId)
\* is called; it takes slot r1 unless a call is in flight there
PatchStart(r, taskId, input, orgId) ==
    /\ patch[r].pc \in {"idle", "done"}
    /\ r = "r2" => patch["r1"].pc \notin {"idle", "done"}
    /\ patch' = [patch EXCEPT ![r] = [IdlePatch EXCEPT !.pc = "read",
                                                       !.taskId = taskId,
                                                       !.input = input,
                                                       !.orgId = orgId]]
    /\ UNCHANGED <<tasks, score, cacheVars, call>>

\* prisma.task.findFirst({ where: { id: taskId, orgId } }) is answered
PatchRead(r) ==
    /\ patch[r].pc = "read"
    /\ patch' = [patch EXCEPT ![r].pc = "decide",
                              ![r].task = FindFirstTask(patch[r].taskId, patch[r].orgId)]
    /\ UNCHANGED <<tasks, score, cacheVars, call>>

\* from the answer of findFirst to the call of prisma.task.update: 404 when
\* there is no row, else updateData from the row read (no requesterId is
\* passed, so the 403 test lets every caller through)
PatchDecide(r) ==
    /\ patch[r].pc = "decide"
    /\ patch' = IF patch[r].task = NULL \/ NotOwnTask(patch[r].task[1], NULL)
                THEN [patch EXCEPT ![r].pc = "done", ![r].task = NULL,
                                   ![r].code = IF patch[r].task = NULL THEN 404 ELSE 403]
                ELSE [patch EXCEPT ![r].pc = "write",
                                   ![r].updateData =
                                       Some(StatusUpdateData(patch[r].task[1],
                                                             patch[r].input))]
    /\ UNCHANGED <<tasks, score, cacheVars, call>>

\* prisma.task.update({ where: { id: taskId }, data: updateData }) is applied
\* and the call returns (its local task ends with it)
PatchWrite(r) ==
    /\ patch[r].pc = "write"
    /\ tasks' = TaskUpdate(patch[r].taskId, patch[r].updateData[1])
    /\ patch' = [patch EXCEPT ![r].pc = "done", ![r].task = NULL, ![r].code = 200]
    /\ UNCHANGED <<score, cacheVars, call>>

\* a task created by createTask: TODO, without completedAt
InitPatch ==
    /\ tasks = <<NewTask(1, "o1", "e1", "MEDIUM", NULL)>>
    /\ score = NULL /\ IdleCache({{}}) /\ call = NULL /\ patch = IdlePatches

NextPatch ==
    \/ \E r \in Slots, taskId \in TaskIds, status \in Statuses, orgId \in Orgs :
          PatchStart(r, taskId, [status |-> status], orgId)
    \/ \E r \in Slots : PatchRead(r)
    \/ \E r \in Slots : PatchDecide(r)
    \/ \E r \in Slots : PatchWrite(r)
    \/ \E d \in TickSteps : Tick(d)

SpecPatch == InitPatch /\ [][NextPatch]_vars

(***************************************************************************)
(* The leaderboard (dashboard.service).                                    *)
(***************************************************************************)
\* bound of the number of employees of the organization BoardOrg
MaxStaff == 6
BoardOrg == "o1"
TopCount == 5

\* the employees table of the leaderboard, in the order findMany returns its
\* rows: the first MaxStaff names in BoardOrg, and one employee elsewhere
StaffNames == <<"e1", "e2", "e4", "e5", "e6", "e7", "e8", "e9">>
Outsider == [id |-> "e3", orgId |-> "o2"]
Staff ==
    <<Outsider>> \o [i \in 1..MaxStaff |-> [id |-> StaffNames[i], orgId |-> BoardOrg]]

\* the tasks an employee may have: none, one open task (score 0), one task
\* completed late (65), one HIGH task completed on time (100)
Profile(p, emp, org) ==
    CASE p = 0 -> <<>>
      [] p = 1 -> <<Row(emp, org, "TODO", "LOW", Some(2), NULL)>>
      [] p = 2 -> <<Row(emp, org, "COMPLETED", "LOW", Some(2), Some(3))>>
      [] OTHER -> <<Row(emp, org, "COMPLETED", "HIGH", Some(2), Some(1))>>
Profiles == 0..3

\* the tasks table in which the i-th employee of BoardOrg has the tasks of
\* profile ps[i], and Outsider has one HIGH task completed on time
RECURSIVE BoardTable(_, _)
BoardTable(ps, i) ==
    IF i = 0 THEN Profile(3, Outsider.id, Outsider.orgId)
    ELSE BoardTable(ps, i - 1) \o Profile(ps[i], StaffNames[i], BoardOrg)

BoardTables == {BoardTable(ps, MaxStaff) : ps \in [1..MaxStaff -> Profiles]}

\* prisma.employee.findMany({ where: { orgId } })
FindManyEmployees(orgId) == SelectSeq(Staff, LAMBDA e : e.orgId = orgId)

\* the entry of an employee, from its score
LeaderboardEntry(employee, score_) ==
    [id |-> employee.id, productivityScore |-> score_.finalScore,
     completedTasks |-> score_.breakdown.completedTasks,
     totalTasks |-> score_.breakdown.totalTasks]

LeaderboardEmployee(employee, orgId) ==
    LeaderboardEntry(employee, calculateProductivityScore(employee.id, orgId))

\* variant: the comparator of an ascending sort
CompareAscending(a, b) == a.productivityScore - b.productivityScore

\* the comparator of the sort
Compare(a, b) == b.productivityScore - a.productivityScore

\* Array.prototype.sort with Compare: a stable sort, x is put before the
\* first element that Compare places after it
SortInsert(sorted, x) ==
    LET after == {i \in 1..Len(sorted) : Compare(sorted[i], x) > 0}
    IN  IF after = {} THEN Append(sorted, x)
        ELSE LET j == CHOOSE i \in after : \A k \in after : i <= k
             IN  SubSeq(sorted, 1, j - 1) \o <<x>> \o SubSeq(sorted, j, Len(sorted))

RECURSIVE Sort(_)
Sort(s) ==
    IF s = <<>> THEN <<>>
    ELSE SortInsert(Sort(SubSeq(s, 1, Len(s) - 1)), s[Len(s)])

\* slice(0, n)
Slice(s, n) == SubSeq(s, 1, Min(n, Len(s)))

getLeaderboard(orgId) ==
    LET employees == FindManyEmployees(orgId)
        employeesWithScores ==
            <<>> \o [i \in 1..Len(employees) |-> LeaderboardEmployee(employees[i], orgId)]
    IN  Slice(Sort(SelectSeq(employeesWithScores, LAMBDA emp : emp.totalTasks > 0)),
              TopCount)

\* GET /api/dashboard/leaderboard with the token of an organization
GetLeaderboard(orgId) ==
    /\ call' = Some([op |-> "getLeaderboard", orgId |-> orgId,
                     leaderboard |-> getLeaderboard(orgId)])
    /\ UNCHANGED <<tasks, score, cacheVars, patch>>

InitBoard == tasks \in BoardTables /\ score = NULL /\ IdleCache({{}}) /\ call = NULL /\ patch = IdlePatches

NextBoard == \E orgId \in Orgs : GetLeaderboard(orgId)

SpecBoard == InitBoard /\ [][NextBoard]_vars

(***************************************************************************)
(* Properties of calculateProductivityScore.  They read the last call      *)
(* (score) and count the rows of the tasks table on their own.             *)
(***************************************************************************)
\* the rows of the table that belong to the employee and organization scored
ScoredTasks ==
    {i \in 1..Len(tasks) : /\ tasks[i].employeeId = score[1].employeeId
                           /\ tasks[i].orgId = score[1].orgId}
ScoredCompleted == {i \in ScoredTasks : tasks[i].status = "COMPLETED"}
ScoredTimely ==
    {i \in ScoredCompleted : /\ tasks[i].completedAt # NULL
                             /\ tasks[i].deadline # NULL
                             /\ tasks[i].completedAt[1] <= tasks[i].deadline[1]}
ScoredHigh == {i \in ScoredTasks : tasks[i].priority = "HIGH"}

\* C1: for every task list, lists that break "completedAt is set iff
\* COMPLETED" included, the finalScore returned is an integer from 0 to 100.
FinalScoreInRange == score # NULL => score[1].result.finalScore \in 0..100

\* a score was computed from a non-empty list with a row that is not
\* COMPLETED and carries a completedAt
FinalScoreInRangeWitness ==
    /\ score # NULL
    /\ \E i \in ScoredTasks : tasks[i].status # "COMPLETED" /\ tasks[i].completedAt # NULL
    /\ score[1].result.finalScore \in 1..99

\* C2: an employee without tasks gets finalScore 0, completionRate 0,
\* deadlineScore 0 and priorityScore 0 with an all-zero breakdown; the call
\* does not end in a division by zero (no NaN in the result).
NoTasksAllZero ==
    (score # NULL /\ ScoredTasks = {}) =>
        score[1].result =
            [finalScore |-> 0, completionRate |-> 0, deadlineScore |-> 0,
             priorityScore |-> 0,
             breakdown |-> [totalTasks |-> 0, completedTasks |-> 0, onTimeTasks |-> 0,
                            highPriorityTotal |-> 0, highPriorityCompleted |-> 0]]

\* a score was computed for an employee without tasks while the table holds
\* tasks of others
NoTasksAllZeroWitness ==
    /\ score # NULL
    /\ ScoredTasks = {}
    /\ Len(tasks) > 0

\* C3: with at least one task and no HIGH task, priorityScore is 0 and the
\* completion rate is weighted by 65: completionRate = round(completed /
\* total * 65), and a list that is completed in full scores 65 + deadlineScore.
NoHighRedistributes ==
    (score # NULL /\ ScoredTasks # {} /\ ScoredHigh = {}) =>
        LET total     == Cardinality(ScoredTasks)
            completed == Cardinality(ScoredCompleted)
        IN  /\ score[1].result.priorityScore = 0
            /\ score[1].result.completionRate = (130 * completed + total) \div (2 * total)
            /\ completed = total =>
                  score[1].result.finalScore = 65 + score[1].result.deadlineScore

\* a list without HIGH tasks, completed in full, some of it late, was scored
NoHighRedistributesWitness ==
    /\ score # NULL
    /\ ScoredTasks # {}
    /\ ScoredHigh = {}
    /\ ScoredCompleted = ScoredTasks
    /\ ScoredTimely # {}
    /\ ScoredTimely # ScoredTasks

\* C4: when no task is COMPLETED, deadlineScore is 0 whatever the deadline and
\* completedAt fields are: the 35 points are lost, not granted or moved.
NoCompletedNoDeadlineScore ==
    (score # NULL /\ ScoredCompleted = {}) =>
        /\ score[1].result.deadlineScore = 0
        /\ score[1].result.finalScore <= 65

\* a list without COMPLETED task, with a task that carries a completedAt
\* before its deadline, was scored
NoCompletedNoDeadlineScoreWitness ==
    /\ score # NULL
    /\ ScoredCompleted = {}
    /\ \E i \in ScoredTasks : /\ tasks[i].completedAt # NULL
                              /\ tasks[i].deadline # NULL
                              /\ tasks[i].completedAt[1] <= tasks[i].deadline[1]

\* the list of the example: 8 tasks, 6 COMPLETED, 5 of them on time, 4 HIGH
\* tasks, 3 of them COMPLETED
ExampleList ==
    /\ Cardinality(ScoredTasks) = 8
    /\ Cardinality(ScoredCompleted) = 6
    /\ Cardinality(ScoredTimely) = 5
    /\ Cardinality(ScoredHigh) = 4
    /\ Cardinality(ScoredHigh \cap ScoredCompleted) = 3

\* C5: for the list of the example the three contributions are 30 (the
\* double 240 * 2^-3), 35 * 5 / 6 (a double d with 0 <= 6 * d - 175 <= 3 * 2^-48)
\* and 18.75 (the double 150 * 2^-3), and finalScore is 78.
ExampleScores78 ==
    (score # NULL /\ ExampleList) =>
        LET raw == score[1].raw[1]
        IN  /\ raw.completionRate = [m |-> <<240, 0, 0, 0>>, e |-> 0 - 48]
            /\ raw.deadlineScore.e = 0 - 48
            /\ Mul4(raw.deadlineScore.m, 6) \in {<<1400, 0, 0, d>> : d \in 0..3}
            /\ raw.priorityScore = [m |-> <<150, 0, 0, 0>>, e |-> 0 - 48]
            /\ score[1].result.finalScore = 78

\* the list of the example was scored
ExampleScores78Witness == score # NULL /\ ExampleList

(***************************************************************************)
(* Properties of the cached endpoints.                                     *)
(***************************************************************************)
\* the provider calls whose text is part of the value v
Answers(v) == ({v.ans} \cup {v.inner[i].ans : i \in 1..Len(v.inner)}) \ {NoAnswer}

\* the rows of the key of the request in slot r, in table rows
KeyRows(rows, r) ==
    {row \in rows : row.orgId = req[r].orgId /\ row.cacheKey = req[r].kind}

\* the step is the lookup of slot r and the table did answer
LookupStep(r) ==
    /\ req[r].pc = "lookup"
    /\ req'[r] # req[r]
    /\ req'[r].error # "StorageError"

\* C6: a non-forced request that finds an entry with expiresAt >= now returns
\* the content of the last write of its key and makes no provider call.
HitServesStored ==
    [][\A r \in Slots :
        (LookupStep(r) /\ \E row \in KeyRows(store, r) : row.expiresAt >= now) =>
            /\ req'[r].pc = "done"
            /\ req'[r].error = ""
            /\ req'[r].result # NULL
            /\ \E w \in written : /\ w.orgId = req[r].orgId
                                  /\ w.cacheKey = req[r].kind
                                  /\ w.content = <<req'[r].result[1]>>
            /\ req'[r].gens = 0
            /\ genCalls' = genCalls
            /\ store' = store]_vars

\* a non-forced request was served, without a provider call, a value that a
\* request wrote before it
HitServesStoredWitness ==
    \E r \in Slots :
        /\ req[r].pc = "done"
        /\ ~req[r].forceRefresh
        /\ req[r].gens = 0
        /\ req[r].result # NULL
        /\ \E a \in Answers(req[r].result[1]) : a.n > 0

\* C7: a non-forced request whose entry has expiresAt < now is not served the
\* stale content: it deletes the row (no row has that id from then on), calls
\* the provider and returns the value generated by that call.
ExpiredIsRegenerated ==
    [][\A r \in Slots :
        /\ (LookupStep(r) /\ \E row \in KeyRows(store, r) : row.expiresAt < now) =>
                /\ req'[r].pc = "delete"
                /\ req'[r].result = NULL
                /\ req'[r].cached = Some(CHOOSE row \in KeyRows(store, r) : TRUE)
        /\ (req[r].pc = "delete" /\ req'[r].pc = "generate") =>
                store' = {row \in store : row.id # req[r].cached[1].id}
        /\ (req[r].cached # NULL /\ req[r].pc # "delete") =>
                \A row \in store \cup store' : row.id # req[r].cached[1].id
        /\ (req[r].cached # NULL /\ req'[r].pc = "done" /\ req'[r].result # NULL) =>
                /\ req'[r].gens = 1
                /\ Answers(req'[r].result[1]) # {}
                /\ \A a \in Answers(req'[r].result[1]) :
                      \A b \in Answers(req[r].cached[1].content[1]) : a.n > b.n
                /\ KeyRows(store', r) # {}
                /\ \A row \in KeyRows(store', r) : row.content = <<req'[r].result[1]>>]_vars

\* a non-forced request ended with a generated value in a row created after
\* the rows the table started with: the row of its key had expired and was
\* deleted
ExpiredIsRegeneratedWitness ==
    \E r \in Slots :
        /\ req[r].pc = "done"
        /\ ~req[r].forceRefresh
        /\ req[r].gens = 1
        /\ req[r].result # NULL
        /\ \E row \in KeyRows(store, r) :
              row.id > Cardinality(FullStore) /\ row.content = <<req[r].result[1]>>

\* C8: a request with forceRefresh never reads the cache and always enters the
\* generation step, also when an unexpired entry exists; when it succeeds the
\* entry of its key holds the new content and expiresAt = now + 24.
ForceRefreshRegenerates ==
    [][\A r \in Slots :
        /\ req'[r].forceRefresh => req'[r].pc \in {"generate", "upsert", "done"}
        /\ (req'[r].forceRefresh /\ req'[r].pc = "done") => req'[r].gens = 1
        /\ (req[r].forceRefresh /\ req[r].pc = "upsert" /\ req'[r].result # NULL) =>
              /\ Cardinality(KeyRows(store', r)) = 1
              /\ \A row \in KeyRows(store', r) :
                    /\ row.content = <<req'[r].result[1]>>
                    /\ row.expiresAt = now + 24
                    /\ \A old \in KeyRows(store, r) : row.id = old.id]_vars

\* a forced request made at time 0, when the row the table started with was
\* still served, has replaced the content of that row
ForceRefreshRegeneratesWitness ==
    \E r \in Slots :
        /\ req[r].pc = "done"
        /\ req[r].forceRefresh
        /\ req[r].result # NULL
        /\ \E row \in KeyRows(store, r) :
              /\ row.id <= Cardinality(FullStore)
              /\ row.expiresAt = 24
              /\ row.content = <<req[r].result[1]>>

\* every value returned, and every content stored, for an organization comes
\* from provider calls made for that organization
OwnAnswers ==
    /\ \A r \in Slots :
          req[r].result # NULL =>
              \A a \in Answers(req[r].result[1]) : a.orgId = req[r].orgId
    /\ \A row \in store : \A a \in Answers(row.content[1]) : a.orgId = row.orgId

\* C9: with the same cacheKey used by two organizations, no request of one
\* returns content written for the other, and an upsert or delete made for
\* one leaves the rows of the other unchanged.
TenantIsolation ==
    /\ []OwnAnswers
    /\ [][\A r \in Slots :
            req'[r] # req[r] =>
                {row \in store' : row.orgId # req[r].orgId}
                    = {row \in store : row.orgId # req[r].orgId}]_vars

\* a request of one organization has written its entry while the other
\* organization holds an entry under the same key
TenantIsolationWitness ==
    \E r \in Slots :
        /\ req[r].pc = "done"
        /\ req[r].gens = 1
        /\ req[r].result # NULL
        /\ \E row \in KeyRows(store, r) : row.content = <<req[r].result[1]>>
        /\ \E row \in store : row.cacheKey = req[r].kind /\ row.orgId # req[r].orgId

\* a skill-gap entry holds the JSON text of a parsed value
ParsedContent ==
    \A row \in store : row.cacheKey = "skill-gap" => row.content[1].kind = "json"

\* C10: when the generation step fails (the provider call fails or, for
\* skill-gap, its text does not parse; or the data for the prompt cannot be
\* read), the request ends with that error after that one generation step
\* and the table is unchanged, so an unexpired entry keeps its content and
\* expiresAt; text that does not parse is never stored.
FailedGenerationCachesNothing ==
    /\ []ParsedContent
    /\ [][\A r \in Slots :
            (req[r].pc = "generate" /\ req'[r].pc = "done") =>
                /\ req'[r].error \in
                      {"ProviderError", "Failed to parse AI response", "StorageError"}
                /\ req'[r].result = NULL
                /\ req'[r].gens = 1
                /\ genCalls' = genCalls + 1
                /\ store' = store]_vars

\* a forced refresh has failed and the entry of its key is still there with
\* the content it had and not expired
FailedGenerationCachesNothingWitness ==
    \E r \in Slots :
        /\ req[r].pc = "done"
        /\ req[r].forceRefresh
        /\ req[r].error \in {"ProviderError", "Failed to parse AI response"}
        /\ \E row \in KeyRows(store, r) :
              /\ row \in FullStore
              /\ row.expiresAt >= now

\* C16: for every non-empty task list finalScore is the sum of the three
\* unrounded contributions rounded once: it lies in 0..100 and within 1/2 of
\* completed / total * completionWeight + onTime / completed * 35 +
\* highCompleted / high * priorityWeight (N / D below); it is not the sum of
\* the three rounded sub-scores reported next to it.
RoundedOnce ==
    (score # NULL /\ ScoredTasks # {}) =>
        LET t  == Cardinality(ScoredTasks)
            c  == Cardinality(ScoredCompleted)
            o  == Cardinality(ScoredTimely)
            h  == Cardinality(ScoredHigh)
            hc == Cardinality(ScoredHigh \cap ScoredCompleted)
            cw == IF h = 0 THEN 65 ELSE 40
            pw == IF h = 0 THEN 0 ELSE 25
            C  == Max(c, 1)
            H  == Max(h, 1)
            D  == t * C * H
            N  == c * cw * C * H + o * 35 * t * H + hc * pw * t * C
            fs == score[1].result.finalScore
        IN  /\ fs \in 0..100
            /\ 2 * fs * D - 2 * N <= D
            /\ 2 * N - 2 * fs * D <= D

\* a list was scored whose finalScore differs from the sum of its three
\* reported sub-scores
RoundedOnceWitness ==
    /\ score # NULL
    /\ ScoredTasks # {}
    /\ score[1].result.finalScore #
          score[1].result.completionRate + score[1].result.deadlineScore
              + score[1].result.priorityScore

ClampChangesNothing ==
    (score # NULL /\ score[1].raw # NULL) =>
        /\ finalScore(score[1].raw[1]) \in 0..100
        /\ score[1].result.finalScore = finalScore(score[1].raw[1])

\* a list with HIGH tasks whose contributions sum to 100 before the clamp
ClampChangesNothingWitness ==
    /\ score # NULL
    /\ score[1].raw # NULL
    /\ ScoredHigh # {}
    /\ Cardinality(ScoredTasks) > 1
    /\ finalScore(score[1].raw[1]) = 100

\* C28: the tasks counted as on time are the COMPLETED ones that have a
\* completedAt and a deadline with completedAt <= deadline, and the tasks
\* counted as completed are the COMPLETED ones; a list of COMPLETED tasks, none
\* with a deadline and none HIGH, gets deadlineScore 0 and finalScore 65.
OnTimeNeedsDeadline ==
    score # NULL =>
        /\ score[1].result.breakdown.onTimeTasks = Cardinality(ScoredTimely)
        /\ score[1].result.breakdown.completedTasks = Cardinality(ScoredCompleted)
        /\ (/\ ScoredTasks # {}
            /\ ScoredCompleted = ScoredTasks
            /\ ScoredHigh = {}
            /\ \A i \in ScoredTasks : tasks[i].deadline = NULL)
               => /\ score[1].result.deadlineScore = 0
                  /\ score[1].result.finalScore = 65

\* a score of 65 for a COMPLETED task that has a completedAt and no deadline
OnTimeNeedsDeadlineWitness ==
    /\ score # NULL
    /\ ScoredTasks # {}
    /\ \A i \in ScoredTasks :
          /\ tasks[i].status = "COMPLETED"
          /\ tasks[i].completedAt # NULL
          /\ tasks[i].deadline = NULL
          /\ tasks[i].priority # "HIGH"
    /\ score[1].result.finalScore = 65

\* C30: when every task of a non-empty list is COMPLETED with completedAt <=
\* deadline, finalScore is 100, with and without HIGH tasks in the list.
AllOnTimeScores100 ==
    (score # NULL /\ ScoredTasks # {} /\ ScoredTimely = ScoredTasks) =>
        score[1].result.finalScore = 100

\* a score of 100 for a list of several tasks, all on time and none HIGH
AllOnTimeScores100Witness ==
    /\ score # NULL
    /\ Cardinality(ScoredTasks) > 1
    /\ ScoredTimely = ScoredTasks
    /\ ScoredHigh = {}
    /\ score[1].result.finalScore = 100

(***************************************************************************)
(* Properties of the score across stores.                                  *)
(***************************************************************************)
\* the tasks of a table whose employeeId and orgId both match, each with the
\* number of times it occurs
OwnTasks(table, employeeId, orgId) ==
    LET own == {i \in 1..Len(table) :
                    table[i].employeeId = employeeId /\ table[i].orgId = orgId}
    IN  [t \in {table[i] : i \in own} |-> Cardinality({i \in own : table[i] = t})]

\* C19: the score of (employeeId, orgId) is a function of exactly the tasks
\* whose employeeId and orgId both match: when a step leaves those tasks the
\* same, whatever it does to the tasks of other employees and organizations
\* and to the order of the rows, calculateProductivityScore returns the same
\* result before and after it (after it: the score of the rows that findMany
\* reads from the table after the step).
ScoreOfOwnTasksOnly ==
    [][\A employeeId \in Employees, orgId \in Orgs :
          OwnTasks(tasks', employeeId, orgId) = OwnTasks(tasks, employeeId, orgId)
              => ProductivityScore(TaskStats(FindTasks(employeeId, orgId))')
                    = calculateProductivityScore(employeeId, orgId)]_vars

\* a score above 0 was returned for e1 in o1 and the store holds, before the
\* tasks of e1 in o1, a task of e1 elsewhere and a task of another employee
\* of o1, which score differently
ScoreOfOwnTasksOnlyWitness ==
    /\ score # NULL
    /\ score[1].employeeId = "e1" /\ score[1].orgId = "o1"
    /\ score[1].result.finalScore > 0
    /\ score[1].result = calculateProductivityScore("e1", "o1")
    /\ Len(tasks) = MaxTasks
    /\ tasks[Len(tasks)].employeeId = "e1" /\ tasks[Len(tasks)].orgId = "o1"
    /\ \E i, j \in 1..Len(tasks) :
          /\ tasks[i].employeeId = "e1" /\ tasks[i].orgId = "o2"
          /\ tasks[j].employeeId = "e2" /\ tasks[j].orgId = "o1"
    /\ calculateProductivityScore("e1", "o2").finalScore # score[1].result.finalScore

(***************************************************************************)
(* Properties of the leaderboard.                                          *)
(***************************************************************************)
\* the employees of an organization that have at least one task in it
WithTasks(orgId) ==
    {Staff[i].id : i \in {j \in 1..Len(Staff) :
        /\ Staff[j].orgId = orgId
        /\ \E k \in 1..Len(tasks) :
              tasks[k].employeeId = Staff[j].id /\ tasks[k].orgId = orgId}}

BoardIds(board) == {board[i].id : i \in 1..Len(board)}

\* C18: getLeaderboard returns at most 5 employees of the organization, each
\* with at least one task, no employee twice, each with its final score, in
\* order of non-increasing score, and no employee with tasks that is left out
\* has a strictly greater score than one that is included.
TopFive ==
    (call # NULL /\ call[1].op = "getLeaderboard") =>
        LET board == call[1].leaderboard
            orgId == call[1].orgId
        IN  /\ Len(board) <= 5
            /\ BoardIds(board) \subseteq WithTasks(orgId)
            /\ \A i, j \in 1..Len(board) : i # j => board[i].id # board[j].id
            /\ \A i \in 1..Len(board) :
                  board[i].productivityScore
                      = calculateProductivityScore(board[i].id, orgId).finalScore
            /\ \A i, j \in 1..Len(board) :
                  i < j => board[i].productivityScore >= board[j].productivityScore
            /\ \A e \in WithTasks(orgId) \ BoardIds(board) :
                  \A i \in 1..Len(board) :
                      calculateProductivityScore(e, orgId).finalScore
                          <= board[i].productivityScore

\* a leaderboard of five employees with different scores that leaves out an
\* employee with tasks
TopFiveWitness ==
    /\ call # NULL
    /\ call[1].op = "getLeaderboard"
    /\ Len(call[1].leaderboard) = 5
    /\ call[1].leaderboard[1].productivityScore > call[1].leaderboard[5].productivityScore
    /\ WithTasks(call[1].orgId) \ BoardIds(call[1].leaderboard) # {}

(***************************************************************************)
(* Properties of the tasks API.  They read the last request (call) and the *)
(* tasks table before and after it.                                        *)
(***************************************************************************)
\* the step is a request of kind op to the tasks API
TaskRequest(op) == call' # NULL /\ call'[1].op = op /\ now' = now

\* the positions of the rows a request addresses: the id of the path, in
\* the organization of the token
Addressed(c) ==
    {i \in 1..Len(tasks) : tasks[i].id = c.taskId /\ tasks[i].orgId = c.token.orgId}

\* C11: every stored task has a completedAt exactly when its status is
\* COMPLETED, in every state that createTask, updateTask, updateTaskStatus
\* and updateTaskTxHash reach one after the other.
CompletedAtIffCompleted ==
    \A i \in 1..Len(tasks) :
        (tasks[i].completedAt # NULL) <=> (tasks[i].status = "COMPLETED")

OwnershipRule ==
    [][(TaskRequest("updateTaskStatus") \/ TaskRequest("updateTaskTxHash")) =>
        LET c == call'[1]
        IN  \A i \in Addressed(c) :
                IF c.token.employeeId = NULL THEN c.code = 200
                ELSE IF tasks[i].employeeId = c.token.employeeId[1]
                THEN c.code = 200
                ELSE c.code = 403 /\ tasks' = tasks]_vars

(***************************************************************************)
(* Properties of updateTaskStatus step by step.                            *)
(***************************************************************************)
\* no updateTaskStatus call is in flight
NoPatchInFlight == \A r \in Slots : patch[r].pc \in {"idle", "done"}

\* C23: whatever the interleaving of two updateTaskStatus calls on one task,
\* once both have completed the task has a completedAt exactly when its
\* status is COMPLETED.
CompletedAtIffCompletedAfterRace ==
    NoPatchInFlight =>
        \A i \in 1..Len(tasks) :
            (tasks[i].completedAt # NULL) <=> (tasks[i].status = "COMPLETED")

\* the step applies the update of slot r, which asks for COMPLETED, to the
\* row at position i, which the call read as it is stored now and which has a
\* completedAt
RepeatedCompletion(r, i) ==
    /\ patch[r].pc = "write"
    /\ patch'[r].pc = "done"
    /\ patch[r].input.status = "COMPLETED"
    /\ tasks[i].id = patch[r].taskId
    /\ patch[r].task = Some(tasks[i])
    /\ tasks[i].completedAt # NULL

\* C29: updateTaskStatus with COMPLETED on a task that already has a
\* completedAt leaves the completedAt as it is and stores COMPLETED; on a task
\* that is COMPLETED already it changes nothing in the table.
KeepsFirstCompletion ==
    [][\A r \in Slots, i \in 1..Len(tasks) :
          RepeatedCompletion(r, i) =>
              /\ tasks'[i].completedAt = tasks[i].completedAt
              /\ tasks'[i].status = "COMPLETED"
              /\ tasks[i].status = "COMPLETED" => tasks' = tasks]_vars

\* a call for COMPLETED has returned after writing the status alone, to a
\* task completed before the clock moved: it keeps the earlier time
KeepsFirstCompletionWitness ==
    \E r \in Slots, i \in 1..Len(tasks) :
        /\ patch[r].pc = "done"
        /\ patch[r].code = 200
        /\ patch[r].input.status = "COMPLETED"
        /\ DOMAIN patch[r].updateData[1] = {"status"}
        /\ tasks[i].id = patch[r].taskId
        /\ tasks[i].status = "COMPLETED"
        /\ tasks[i].completedAt # NULL
        /\ tasks[i].completedAt[1] < now

(***************************************************************************)
(* Properties of smartAssign and of the TTLs.                              *)
(***************************************************************************)
\* the step is a successful upsert of slot r
UpsertStep(r) ==
    /\ req[r].pc = "upsert"
    /\ req'[r].pc = "done"
    /\ req'[r].error = ""

\* C21: every entry written after a successful generation expires at the
\* time of the write plus 24 hours under the keys skill-gap and
\* daily-insight and plus 6 hours under a key smart-assign:<skill>, whether
\* the write creates the entry or overwrites one.
TtlByCaller ==
    [][\A r \in Slots :
          UpsertStep(r) =>
              LET rows == {row \in store' : /\ row.orgId = req[r].orgId
                                            /\ row.cacheKey = req[r].kind}
                  long == req[r].kind \in {"skill-gap", "daily-insight"}
              IN  /\ rows # {}
                  /\ long \/ req[r].kind \in {"smart-assign:go", "smart-assign:js"}
                  /\ \A row \in rows :
                        row.expiresAt = now + (IF long THEN 24 ELSE 6)]_vars

\* at time 0 a forced analyzeSkillGap has overwritten the entry of its key
\* (the row keeps its id), which now expires at 24, and a smartAssign call has
\* created the entry of its key, which expires at 6
TtlByCallerWitness ==
    /\ now = 0
    /\ \E r \in Slots :
          /\ req[r].pc = "done" /\ req[r].kind = "skill-gap"
          /\ req[r].gens = 1 /\ req[r].result # NULL
    /\ \E r \in Slots :
          /\ req[r].pc = "done" /\ req[r].kind = "smart-assign:go"
          /\ req[r].gens = 1 /\ req[r].result # NULL
    /\ \E row \in store :
          /\ row.cacheKey = "skill-gap" /\ row.orgId = RaceOrg
          /\ row.id = 1 /\ row.expiresAt = 24
    /\ \E row \in store :
          /\ row.cacheKey = "smart-assign:go" /\ row.orgId = RaceOrg
          /\ row.expiresAt = 6

\* the key a skill is expected under
SkillKey(skillRequired) ==
    IF skillRequired \in {<<"G", "o">>, <<" ", "g", "O", " ">>}
    THEN "smart-assign:go" ELSE "smart-assign:js"

\* the request body whose generation produced a recommendation
PromptedBy(recommendation) == recommendation.inner[1][1].ans.input

\* what holds of the request in slot r: its key is the one of its skill, and
\* a recommendation it returned was generated for a skill with that key
AssignScoped(r) ==
    /\ req[r].input # NULL =>
          /\ req[r].kind = SkillKey(req[r].input[1].skillRequired)
          /\ req[r].result # NULL =>
                /\ req[r].result[1].kind = "jsonAssign"
                /\ SkillKey(PromptedBy(req[r].result[1]).skillRequired) = req[r].kind
    /\ (req[r].input = NULL /\ req[r].result # NULL) =>
          req[r].result[1].kind # "jsonAssign"

\* C26: the cache key of smartAssign is that of the skill, lower-cased and
\* trimmed.  A lookup that finds an unexpired entry under that key in the
\* organization ends the request: unless the read fails it returns the stored
\* recommendation, whatever task title it was generated for, and the request
\* made no generation.  A request never returns a recommendation generated
\* for a skill with another key, nor the answer of analyzeSkillGap or
\* getDailyInsight, and those never return a recommendation.
AssignKeyedBySkill ==
    [][\A r \in Slots :
          /\ AssignScoped(r)'
          /\ (/\ req[r].pc = "lookup"
              /\ req[r].input # NULL
              /\ req'[r] # req[r]) =>
                \A row \in store :
                    (/\ row.orgId = req[r].orgId
                     /\ row.cacheKey = SkillKey(req[r].input[1].skillRequired)
                     /\ row.expiresAt >= now) =>
                        /\ req'[r].pc = "done"
                        /\ req'[r].gens = 0
                        /\ req'[r].error \in {"", "StorageError"}
                        /\ req'[r].error = "" =>
                              req'[r].result = Some(row.content[1])]_vars

\* a request for " gO " and the task "Fix login" returned, without a
\* generation, the recommendation generated for "Go" and the task "Build API"
AssignKeyedBySkillWitness ==
    \E r \in Slots :
        /\ req[r].pc = "done"
        /\ req[r].input # NULL
        /\ req[r].input[1].taskTitle = "Fix login"
        /\ req[r].gens = 0
        /\ req[r].result # NULL
        /\ PromptedBy(req[r].result[1]).taskTitle = "Build API"
        /\ PromptedBy(req[r].result[1]).skillRequired = <<"G", "o">>

(***************************************************************************)
(* Properties of the cache under two requests racing for one key, and of  *)
(* its failure paths.                                                      *)
(***************************************************************************)
\* slot r has returned a value it generated after a cache miss
GeneratedOnMiss(r) ==
    /\ req[r].pc = "done"
    /\ ~req[r].forceRefresh
    /\ req[r].gens = 1
    /\ req[r].result # NULL

\* C14: two non-forced requests for the same key that find no unexpired
\* entry can both generate and both upsert; every upsert that succeeds
\* leaves the one entry of the key with its own content and expiresAt, so
\* the entry of an earlier upsert of the other request is overwritten.
LastWriteWins ==
    [][\A r \in Slots :
        (req[r].pc = "upsert" /\ req'[r].result # NULL) =>
            /\ Cardinality(KeyRows(store', r)) = 1
            /\ \A row \in KeyRows(store', r) :
                  /\ row.content = <<req'[r].result[1]>>
                  /\ row.expiresAt = now + 24
                  /\ \A q \in Slots \ {r} :
                        (GeneratedOnMiss(q) /\ req[q].orgId = req[r].orgId
                            /\ req[q].kind = req[r].kind)
                        => row.content # <<req[q].result[1]>>]_vars

\* both requests missed, generated and upserted, and the entry holds the
\* value of the second slot
LastWriteWinsWitness ==
    /\ \A r \in Slots : GeneratedOnMiss(r)
    /\ req["r1"].orgId = req["r2"].orgId
    /\ req["r1"].kind = req["r2"].kind
    /\ req["r1"].result # req["r2"].result
    /\ \E row \in KeyRows(store, "r2") : row.content = <<req["r2"].result[1]>>

\* C15: a request whose delete of the expired entry fails still goes on to
\* the generation step: the failure of the delete does not end the request.
DeleteFailureIsIgnored ==
    [][\A r \in Slots :
        (req[r].pc = "delete" /\ req'[r] # req[r]) =>
            /\ req'[r].pc = "generate"
            /\ req'[r].error = ""]_vars

\* C20: an upsert step after a successful generation either stores the value
\* and returns it, or fails: then the request ends with the storage error and
\* without a value, and the table is unchanged, the entry of the key neither
\* created nor modified. No upsert step ends without an error unless the entry
\* of the key holds the generated value.
UpsertFailurePropagates ==
    [][\A r \in Slots :
        (req[r].pc = "upsert" /\ req'[r].pc = "done") =>
            /\ req[r].gens = 1
            /\ req[r].value # NULL
            /\ \/ /\ req'[r].error = ""
                  /\ req'[r].result = req[r].value
                  /\ \E row \in KeyRows(store', r) :
                        /\ row.content = JsonStringify(req[r].value[1])
                        /\ row.expiresAt = ExpiresAt(now, TtlOf(req[r].kind))
               \/ /\ req'[r].error = "StorageError"
                  /\ req'[r].result = NULL
                  /\ store' = store]_vars

\* a request generated a value, failed to store it, and the key has no entry
UpsertFailurePropagatesWitness ==
    \E r \in Slots :
        /\ req[r].pc = "done"
        /\ req[r].gens = 1
        /\ req[r].error = "StorageError"
        /\ req[r].result = NULL
        /\ genCalls = 1
        /\ KeyRows(store, r) = {}

\* the rows of a table outside the key of slot r
OtherRows(rows, r) == rows \ KeyRows(rows, r)

\* the step is the lazy delete of slot r: a non-forced request removes the row
\* it found, which was expired when it was found, and no other row
LazyDeleteStep(r) ==
    /\ req[r].pc = "delete"
    /\ req'[r].pc = "generate"
    /\ ~req[r].forceRefresh
    /\ req[r].cached # NULL
    /\ req[r].cached[1].expiresAt < now
    /\ store' = {row \in store : row.id # req[r].cached[1].id}

\* the step is the upsert of slot r after its generation: the rows of the
\* other keys stay as they are
UpsertAfterGenerationStep(r) ==
    /\ req[r].pc = "upsert"
    /\ req'[r].pc = "done"
    /\ req[r].gens = 1
    /\ req[r].value # NULL
    /\ OtherRows(store', r) = OtherRows(store, r)

\* C22: the table changes only in the lazy delete of an entry a non-forced
\* read found expired and in the upsert after a successful generation; so a
\* cache hit leaves content and expiresAt of the entry as they are, and the
\* passage of time removes nothing.
CacheFrame ==
    [][store' # store =>
          \E r \in Slots : LazyDeleteStep(r) \/ UpsertAfterGenerationStep(r)]_vars

\* after the clock moved an expired entry is still stored, and a request was
\* served from the entry written at time 0, which still expires at 24
CacheFrameWitness ==
    /\ now = 24
    /\ \E row \in store : row.expiresAt < now
    /\ \E r \in Slots :
          /\ req[r].pc = "done"
          /\ req[r].gens = 0
          /\ req[r].result # NULL
          /\ \E row \in KeyRows(store, r) :
                /\ row.content = <<req[r].result[1]>>
                /\ row.expiresAt = 24

\* C24: whatever the interleaving of the requests on a key, a row that leaves
\* the table is expired at the moment it is deleted.
DeletesOnlyExpired ==
    [][\A row \in store :
          (\A kept \in store' : kept.id # row.id) => row.expiresAt < now]_vars

\* C25: the table holds at most one entry for an organization and a cache
\* key, whatever lookups, lazy deletes, forced refreshes and upserts precede.
OneEntryPerKey ==
    \A row \in store, other \in store :
        (row.orgId = other.orgId /\ row.cacheKey = other.cacheKey) => row = other

\* a forced refresh has overwritten the entry of its key after another
\* request wrote it: the table holds the one row of the key, with the value
\* of the refresh
OneEntryPerKeyWitness ==
    \E r \in Slots, q \in Slots :
        /\ r # q
        /\ req[r].pc = "done" /\ req[r].forceRefresh
        /\ req[r].gens = 1 /\ req[r].result # NULL
        /\ req[q].pc = "done" /\ req[q].gens = 1 /\ req[q].result # NULL
        /\ req[q].kind = req[r].kind /\ req[q].orgId = req[r].orgId
        /\ req[q].result # req[r].result
        /\ Cardinality(KeyRows(store, r)) = 1
        /\ \E row \in KeyRows(store, r) : row.content = <<req[r].result[1]>>

====
